---- MODULE Spec2Model ----
(***************************************************************************)
(* A model of nvdaHelper/common/GDIObject.h: the smart GDI object handle   *)
(* GDIObject, its constructor, destroy(), operator=(HGDIOBJ), the three    *)
(* conversion operators and the destructor, together with the record of    *)
(* the DeleteObject calls the class makes.                                 *)
(***************************************************************************)
EXTENDS Integers, Sequences, FiniteSets, TLC

\* Bounds of the model.
NumInstances == 2      \* GDIObject instances the program creates
NumHandles == 2        \* distinct non-null handle values
MaxOps == 4            \* constructor, member and destructor calls in one run
NumThreads == 2        \* threads that share one instance
MaxThreadCalls == 3    \* calls the threads begin on the shared instance

nullptr == 0
HGDIOBJ == 0..NumHandles
Instances == 1..NumInstances
Threads == 1..NumThreads

VARIABLES
    _hGDIObj,     \* _hGDIObj[i]: the member of instance i
    life,         \* life[i]: "none" (not yet constructed), "alive", "dead"
    calls,        \* the DeleteObject calls made so far, in order
    freed,        \* handles whose object a DeleteObject call has deleted
    ret,          \* ret[i]: what the last call on instance i returned
    lastOp,       \* lastOp[i]: the last call made on instance i
    prevOp,       \* prevOp[i]: the call made on instance i before that
    nCalls,       \* nCalls[i]: number of calls made on instance i
    made,         \* made[i]: DeleteObject calls made by the last call on i
    adopted,      \* adopted[i]: the handle last passed to i (ctor or operator=)
    released,     \* released[i]: destroy() was called on i since then
    passedTo,     \* passedTo[h]: the instances the caller passed h to
    stalePassed,  \* the caller passed a handle DeleteObject had already seen
    epoch,        \* epoch[i]: number of handles instance i has adopted so far
    pc,           \* pc[t]: where thread t is in the call it is making
    top,          \* top[t]: the member function thread t is in
    targ,         \* targ[t]: the argument h of thread t's operator=
    treg,         \* treg[t]: the value of _hGDIObj thread t read in if(_hGDIObj)
    serial,       \* the caller serialises the calls on the shared instance
    mutex,        \* the thread that holds the caller's lock, or 0
    started       \* calls the threads have begun

vars == <<_hGDIObj, life, calls, freed, ret, lastOp, prevOp, nCalls, made,
          adopted, released, passedTo, stalePassed, epoch,
          pc, top, targ, treg, serial, mutex, started>>

\* The state of the threads.
thrVars == <<pc, top, targ, treg, serial, mutex, started>>

----------------------------------------------------------------------------
(* The code, as operators on the memory m = [h, calls, freed, ret] seen by *)
(* one call: m.h is this->_hGDIObj, m.calls and m.freed are the GDI side,  *)
(* m.ret is the value the call returns.  m.epoch numbers the adoption the  *)
(* instance is in, and is copied into the record of each DeleteObject call.*)

void == [type |-> "void", value |-> 0]

\* The memory a call on instance i starts from.
Mem(i) == [h |-> _hGDIObj[i], calls |-> calls, freed |-> freed, ret |-> void,
           epoch |-> epoch[i]]

\* static_cast<bool>(p), and the condition of if(p): a pointer is true iff
\* it is not the null pointer.
static_cast_bool(p) == p # nullptr

\* static_cast<HRGN>(p): the same address, typed as a region handle.
static_cast_HRGN(p) == [type |-> "HRGN", value |-> p]

\* DeleteObject(arg), called by instance i.  The call is recorded with the
\* value _hGDIObj holds at that moment.  It deletes the object and returns
\* nonzero, or fails (ok = FALSE, a handle that is not valid or an object
\* still selected into a DC) and returns zero, leaving the object alone.
DeleteObject(m, i, arg, ok) ==
    LET success == ok /\ arg # nullptr /\ arg \notin m.freed
    IN  [m EXCEPT !.calls = Append(@, [obj |-> i, arg |-> arg,
                                       owned |-> m.h, ret |-> success,
                                       epoch |-> m.epoch]),
                  !.freed = IF success THEN @ \cup {arg} ELSE @]

\* destroy() that forgets _hGDIObj=nullptr.
destroy_NoClear(m, i, ok) ==
    IF static_cast_bool(m.h) THEN DeleteObject(m, i, m.h, ok) ELSE m

\* destroy() without the if(_hGDIObj) test.
destroy_NoTest(m, i, ok) == [DeleteObject(m, i, m.h, ok) EXCEPT !.h = nullptr]

\* destroy() that clears _hGDIObj only when DeleteObject reports success.
destroy_ClearOnSuccess(m, i, ok) ==
    IF static_cast_bool(m.h)
    THEN LET d == DeleteObject(m, i, m.h, ok)
         IN  IF d.calls[Len(d.calls)].ret THEN [d EXCEPT !.h = nullptr] ELSE d
    ELSE m

\* void destroy()
destroy(m, i, ok) ==
    IF static_cast_bool(m.h)
    THEN [DeleteObject(m, i, m.h, ok) EXCEPT !.h = nullptr]
    ELSE m

\* operator= that stores h before it calls destroy().
operator_assign_StoreFirst(m, i, h, ok) ==
    [destroy([m EXCEPT !.h = h], i, ok)
        EXCEPT !.ret = [type |-> "GDIObject&", value |-> i]]

\* operator= that does not call destroy().
operator_assign_NoDestroy(m, i, h, ok) ==
    [m EXCEPT !.h = h, !.ret = [type |-> "GDIObject&", value |-> i]]

\* GDIObject& operator=(HGDIOBJ h): destroy(); _hGDIObj=h; return *this;
operator_assign(m, i, h, ok) ==
    [destroy(m, i, ok) EXCEPT !.h = h,
                              !.ret = [type |-> "GDIObject&", value |-> i]]

\* operator HGDIOBJ that gives the handle away, leaving the wrapper empty.
operator_HGDIOBJ_Detach(m) ==
    [m EXCEPT !.ret = [type |-> "HGDIOBJ", value |-> m.h], !.h = nullptr]

\* operator HGDIOBJ(): return _hGDIObj;
operator_HGDIOBJ(m) == [m EXCEPT !.ret = [type |-> "HGDIOBJ", value |-> m.h]]

\* operator HRGN(): return static_cast<HRGN>(_hGDIObj);
operator_HRGN(m) == [m EXCEPT !.ret = static_cast_HRGN(m.h)]

\* operator bool with the test inverted.
operator_bool_Inverted(m) ==
    [m EXCEPT !.ret = [type |-> "bool", value |-> ~static_cast_bool(m.h)]]

\* operator bool(): return static_cast<bool>(_hGDIObj);
operator_bool(m) ==
    [m EXCEPT !.ret = [type |-> "bool", value |-> static_cast_bool(m.h)]]

\* A destructor that does not call destroy().
dtor_GDIObject_Empty(m, i, ok) == m

\* ~GDIObject(): destroy();
dtor_GDIObject(m, i, ok) == destroy(m, i, ok)

\* A constructor that adopts only a handle whose object still exists.
ctor_GDIObject_Validate(m, h) ==
    [m EXCEPT !.h = IF h \in m.freed THEN nullptr ELSE h]

\* GDIObject(HGDIOBJ h=nullptr): _hGDIObj(h) {}
ctor_GDIObject(m, h) == [m EXCEPT !.h = h]

\* The default argument of the constructor.
DefaultHandle == nullptr

----------------------------------------------------------------------------
RECURSIVE SumTo(_, _)
SumTo(f, n) == IF n = 0 THEN 0 ELSE f[n] + SumTo(f, n - 1)

\* Calls made so far on all instances.
TotalCalls == SumTo(nCalls, NumInstances)

\* DeleteObject has been called with h.
Invoked(h) == \E k \in 1..Len(calls) : calls[k].arg = h

Init ==
    /\ _hGDIObj = [i \in Instances |-> nullptr]
    /\ life = [i \in Instances |-> "none"]
    /\ calls = <<>>
    /\ freed = {}
    /\ ret = [i \in Instances |-> void]
    /\ lastOp = [i \in Instances |-> "none"]
    /\ prevOp = [i \in Instances |-> "none"]
    /\ nCalls = [i \in Instances |-> 0]
    /\ made = [i \in Instances |-> 0]
    /\ adopted = [i \in Instances |-> nullptr]
    /\ released = [i \in Instances |-> FALSE]
    /\ passedTo = [h \in 1..NumHandles |-> {}]
    /\ stalePassed = FALSE
    /\ epoch = [i \in Instances |-> 0]
    /\ pc = [t \in Threads |-> "idle"]
    /\ top = [t \in Threads |-> "none"]
    /\ targ = [t \in Threads |-> nullptr]
    /\ treg = [t \in Threads |-> nullptr]
    /\ serial = TRUE
    /\ mutex = 0
    /\ started = 0

\* Commit for a class whose _hGDIObj is a static member, shared by all
\* instances.
Commit_Static(i, m, op) ==
    /\ _hGDIObj' = [j \in Instances |-> m.h]
    /\ calls' = m.calls
    /\ freed' = m.freed
    /\ ret' = [ret EXCEPT ![i] = m.ret]
    /\ lastOp' = [lastOp EXCEPT ![i] = op]
    /\ prevOp' = [prevOp EXCEPT ![i] = lastOp[i]]
    /\ nCalls' = [nCalls EXCEPT ![i] = @ + 1]
    /\ made' = [made EXCEPT ![i] = Len(m.calls) - Len(calls)]
    /\ UNCHANGED thrVars

\* The effect of one call on instance i: the memory it leaves, its name and
\* its return value.
Commit(i, m, op) ==
    /\ _hGDIObj' = [_hGDIObj EXCEPT ![i] = m.h]
    /\ calls' = m.calls
    /\ freed' = m.freed
    /\ ret' = [ret EXCEPT ![i] = m.ret]
    /\ lastOp' = [lastOp EXCEPT ![i] = op]
    /\ prevOp' = [prevOp EXCEPT ![i] = lastOp[i]]
    /\ nCalls' = [nCalls EXCEPT ![i] = @ + 1]
    /\ made' = [made EXCEPT ![i] = Len(m.calls) - Len(calls)]
    /\ UNCHANGED thrVars

\* The caller hands h to instance i.
Pass(i, h) ==
    /\ adopted' = [adopted EXCEPT ![i] = h]
    /\ released' = [released EXCEPT ![i] = FALSE]
    /\ passedTo' = IF h # nullptr
                   THEN [passedTo EXCEPT ![h] = @ \cup {i}]
                   ELSE passedTo
    /\ stalePassed' = (stalePassed \/ (h # nullptr /\ Invoked(h)))
    /\ epoch' = [epoch EXCEPT ![i] = @ + 1]

\* Instance i is constructed from h: GDIObject obj(h).
GDIObject(i, h) ==
    /\ life[i] = "none"
    /\ TotalCalls < MaxOps
    /\ life' = [life EXCEPT ![i] = "alive"]
    /\ Commit(i, ctor_GDIObject(Mem(i), h), "GDIObject(h)")
    /\ Pass(i, h)

\* Instance i is constructed with no argument: GDIObject obj.
GDIObjectDefault(i) ==
    /\ life[i] = "none"
    /\ TotalCalls < MaxOps
    /\ life' = [life EXCEPT ![i] = "alive"]
    /\ Commit(i, ctor_GDIObject(Mem(i), DefaultHandle), "GDIObject()")
    /\ Pass(i, DefaultHandle)

\* A call of destroy() on instance i.
Destroy(i, ok) ==
    /\ life[i] = "alive"
    /\ TotalCalls < MaxOps
    /\ Commit(i, destroy(Mem(i), i, ok), "destroy")
    /\ released' = [released EXCEPT ![i] = TRUE]
    /\ UNCHANGED <<life, adopted, passedTo, stalePassed, epoch>>

\* A call of operator=(h) on instance i.
OperatorAssign(i, h, ok) ==
    /\ life[i] = "alive"
    /\ TotalCalls < MaxOps
    /\ Commit(i, operator_assign(Mem(i), i, h, ok), "operator=")
    /\ Pass(i, h)
    /\ UNCHANGED life

\* A conversion of instance i to HGDIOBJ.
OperatorHGDIOBJ(i) ==
    /\ life[i] = "alive"
    /\ TotalCalls < MaxOps
    /\ Commit(i, operator_HGDIOBJ(Mem(i)), "operator HGDIOBJ")
    /\ UNCHANGED <<life, adopted, released, passedTo, stalePassed, epoch>>

\* A conversion of instance i to HRGN.
OperatorHRGN(i) ==
    /\ life[i] = "alive"
    /\ TotalCalls < MaxOps
    /\ Commit(i, operator_HRGN(Mem(i)), "operator HRGN")
    /\ UNCHANGED <<life, adopted, released, passedTo, stalePassed, epoch>>

\* A conversion of instance i to bool.
OperatorBool(i) ==
    /\ life[i] = "alive"
    /\ TotalCalls < MaxOps
    /\ Commit(i, operator_bool(Mem(i)), "operator bool")
    /\ UNCHANGED <<life, adopted, released, passedTo, stalePassed, epoch>>

\* ~GDIObject(): the lifetime of instance i ends.
DtorGDIObject(i, ok) ==
    /\ life[i] = "alive"
    /\ TotalCalls < MaxOps
    /\ life' = [life EXCEPT ![i] = "dead"]
    /\ Commit(i, dtor_GDIObject(Mem(i), i, ok), "~GDIObject")
    /\ UNCHANGED <<adopted, released, passedTo, stalePassed, epoch>>

Next ==
    \/ \E i \in Instances, h \in HGDIOBJ : GDIObject(i, h)
    \/ \E i \in Instances : GDIObjectDefault(i)
    \/ \E i \in Instances, ok \in BOOLEAN : Destroy(i, ok)
    \/ \E i \in Instances, h \in HGDIOBJ, ok \in BOOLEAN : OperatorAssign(i, h, ok)
    \/ \E i \in Instances : OperatorHGDIOBJ(i)
    \/ \E i \in Instances : OperatorHRGN(i)
    \/ \E i \in Instances : OperatorBool(i)
    \/ \E i \in Instances, ok \in BOOLEAN : DtorGDIObject(i, ok)

Spec == Init /\ [][Next]_vars

TypeOK ==
    /\ _hGDIObj \in [Instances -> HGDIOBJ]
    /\ life \in [Instances -> {"none", "alive", "dead"}]
    /\ freed \subseteq 1..NumHandles
    /\ Len(calls) <= MaxOps
    /\ TotalCalls <= MaxOps
----------------------------------------------------------------------------
(* Properties.                                                             *)

\* The DeleteObject calls instance i has made, in order.
CallsOf(i) == SelectSeq(calls, LAMBDA c : c.obj = i)

\* The number of DeleteObject calls instance i has made with h.
CallsOn(i, h) == Len(SelectSeq(calls, LAMBDA c : c.obj = i /\ c.arg = h))

\* Instance i took part in a step.
Called(i) == nCalls'[i] = nCalls[i] + 1

\* C1: once the lifetime of a wrapper has ended, DeleteObject has been
\* called exactly once with every non-null handle the wrapper adopted by
\* construction or assignment, and with no other value.  Stated for callers
\* that pass only null or handles DeleteObject was not yet called with.
C1_ReleasedExactlyOnce ==
    ~stalePassed =>
        \A i \in Instances : life[i] = "dead" =>
            /\ \A h \in 1..NumHandles : i \in passedTo[h] => CallsOn(i, h) = 1
            /\ \A k \in 1..Len(calls) : calls[k].obj = i =>
                   /\ calls[k].arg # nullptr
                   /\ i \in passedTo[calls[k].arg]

\* C2: a non-null owned handle names an object that is still allocated:
\* DeleteObject has not been called with it.  Stated for callers that pass
\* only null or handles DeleteObject was not yet called with, the handle the
\* wrapper owns at the moment of the assignment included.
C2_OwnedIsAllocated ==
    ~stalePassed =>
        \A i \in Instances : _hGDIObj[i] # nullptr =>
            /\ ~Invoked(_hGDIObj[i])
            /\ _hGDIObj[i] \notin freed

\* C3: a wrapper constructed with h and destroyed with no call in between
\* makes exactly one DeleteObject call, with h, when h is non-null, and none
\* when h is null; a default-constructed wrapper destroyed the same way
\* makes none.
C3_ConstructThenDestruct ==
    [][\A i \in Instances :
          (Called(i) /\ lastOp'[i] = "~GDIObject"
                     /\ lastOp[i] \in {"GDIObject(h)", "GDIObject()"}) =>
             /\ lastOp[i] = "GDIObject()" => CallsOf(i)' = <<>>
             /\ adopted[i] = nullptr => CallsOf(i)' = <<>>
             /\ adopted[i] # nullptr =>
                   /\ Len(CallsOf(i)') = 1
                   /\ CallsOf(i)'[1].arg = adopted[i]]_vars

C3_Witness ==
    \E i \in Instances :
        /\ life[i] = "dead" /\ nCalls[i] = 2
        /\ adopted[i] # nullptr
        /\ Len(CallsOf(i)) = 1 /\ CallsOf(i)[1].arg = adopted[i]

\* C4: assigning a new value h2 to a wrapper that owns non-null h1 makes
\* exactly one DeleteObject call, with h1, made while h1 is still the owned
\* value, and none with h2; afterwards the owned value is h2.
C4_AssignReleasesOld ==
    [][\A i \in Instances :
          (Called(i) /\ lastOp'[i] = "operator="
                     /\ _hGDIObj[i] # nullptr /\ adopted'[i] # _hGDIObj[i]) =>
             /\ Len(calls') = Len(calls) + 1
             /\ SubSeq(calls', 1, Len(calls)) = calls
             /\ calls'[Len(calls')].obj = i
             /\ calls'[Len(calls')].arg = _hGDIObj[i]
             /\ calls'[Len(calls')].owned = _hGDIObj[i]
             /\ _hGDIObj'[i] = adopted'[i]]_vars

C4_Witness ==
    \E i \in Instances :
        /\ lastOp[i] = "operator=" /\ made[i] = 1
        /\ _hGDIObj[i] # nullptr
        /\ calls[Len(calls)].obj = i
        /\ calls[Len(calls)].arg # _hGDIObj[i]

\* C5: destroy() is idempotent: two calls in succession make at most one
\* DeleteObject call between them and the second changes nothing; destroy()
\* on a wrapper that owns nothing changes nothing.
C5_DestroyIdempotent ==
    [][\A i \in Instances :
          (Called(i) /\ lastOp'[i] = "destroy") =>
             /\ lastOp[i] = "destroy" =>
                   /\ made[i] + made'[i] <= 1
                   /\ made'[i] = 0
                   /\ calls' = calls /\ freed' = freed
                   /\ _hGDIObj[i] = nullptr /\ _hGDIObj' = _hGDIObj
             /\ _hGDIObj[i] = nullptr =>
                   /\ calls' = calls /\ freed' = freed
                   /\ _hGDIObj' = _hGDIObj]_vars

C5_Witness ==
    \E i \in Instances :
        /\ prevOp[i] = "destroy" /\ lastOp[i] = "destroy"
        /\ adopted[i] # nullptr
        /\ Len(CallsOf(i)) = 1

\* C6: operator bool returns false exactly when _hGDIObj is null: false for
\* a default-constructed wrapper, false right after destroy(), and true
\* whenever a non-null handle is owned.
C6_BoolIffOwned ==
    \A i \in Instances : life[i] = "alive" =>
        /\ operator_bool(Mem(i)).ret.value = (_hGDIObj[i] # nullptr)
        /\ lastOp[i] = "operator bool" =>
              ret[i] = [type |-> "bool", value |-> _hGDIObj[i] # nullptr]
        /\ lastOp[i] = "GDIObject()" => ~operator_bool(Mem(i)).ret.value
        /\ lastOp[i] = "destroy" => ~operator_bool(Mem(i)).ret.value

C6_Witness ==
    \E i \in Instances :
        /\ prevOp[i] = "destroy" /\ lastOp[i] = "operator bool"
        /\ adopted[i] # nullptr
        /\ ret[i] = [type |-> "bool", value |-> FALSE]

\* The value last adopted by construction or operator=, or null if destroy()
\* was called since.
Current(i) == IF released[i] THEN nullptr ELSE adopted[i]

\* C7: operator HGDIOBJ returns the value most recently adopted by
\* construction or operator=, or null if destroy() has run since, and
\* operator HRGN returns the same value; the destroy() that empties the
\* wrapper calls DeleteObject with the adopted value.
C7_ConversionsReturnCurrent ==
    \A i \in Instances : life[i] = "alive" =>
        /\ operator_HGDIOBJ(Mem(i)).ret.value = Current(i)
        /\ operator_HRGN(Mem(i)).ret.value = operator_HGDIOBJ(Mem(i)).ret.value
        /\ lastOp[i] = "operator HGDIOBJ" =>
              ret[i] = [type |-> "HGDIOBJ", value |-> Current(i)]
        /\ lastOp[i] = "operator HRGN" =>
              ret[i] = [type |-> "HRGN", value |-> Current(i)]
        /\ (lastOp[i] = "destroy" /\ made[i] = 1) =>
              CallsOf(i)[Len(CallsOf(i))].arg = adopted[i]

C7_Witness ==
    \E i \in Instances :
        /\ prevOp[i] = "destroy" /\ lastOp[i] = "operator HGDIOBJ"
        /\ adopted[i] # nullptr /\ CallsOn(i, adopted[i]) = 1
        /\ ret[i] = [type |-> "HGDIOBJ", value |-> nullptr]

\* The caller passed every handle to at most one instance.
PassedToOne == \A h \in 1..NumHandles : Cardinality(passedTo[h]) <= 1

\* C8: an instance owns only a handle the caller passed to it; hence, when
\* the caller passes every handle to at most one instance, no two instances
\* own the same non-null handle.
C8_ExclusiveOwnership ==
    /\ \A i \in Instances :
          (life[i] = "alive" /\ _hGDIObj[i] # nullptr) =>
              i \in passedTo[_hGDIObj[i]]
    /\ PassedToOne =>
          \A i, j \in Instances :
              (i # j /\ life[i] = "alive" /\ life[j] = "alive"
                     /\ _hGDIObj[i] # nullptr) => _hGDIObj[i] # _hGDIObj[j]

C8_Witness ==
    /\ PassedToOne
    /\ \E i, j \in Instances :
          /\ i # j /\ life[i] = "alive" /\ life[j] = "alive"
          /\ _hGDIObj[i] # nullptr /\ _hGDIObj[j] # nullptr
          /\ lastOp[i] = "operator=" /\ lastOp[j] = "operator HGDIOBJ"

Queries == {"operator HGDIOBJ", "operator HRGN", "operator bool"}

\* The DeleteObject calls instance i will make when its lifetime ends now.
Pending(i) == Len(dtor_GDIObject(Mem(i), i, TRUE).calls) - Len(calls)

\* C9: the conversions are pure: a call of operator HGDIOBJ, operator HRGN
\* or operator bool leaves _hGDIObj unchanged, makes no DeleteObject call
\* and does not change the calls the wrapper makes afterwards.
C9_ConversionsPure ==
    [][\A i \in Instances :
          (Called(i) /\ lastOp'[i] \in Queries) =>
             /\ _hGDIObj' = _hGDIObj
             /\ calls' = calls /\ freed' = freed
             /\ made'[i] = 0
             /\ Pending(i)' = Pending(i)]_vars

C9_Witness ==
    \E i \in Instances :
        /\ lastOp[i] \in Queries /\ prevOp[i] \in Queries
        /\ _hGDIObj[i] # nullptr /\ Pending(i) = 1

\* C10: DeleteObject is never called with null: every call made by
\* destroy(), operator= or the destructor carries the non-null value
\* _hGDIObj held at that moment.
C10_NeverDeletesNull ==
    \A k \in 1..Len(calls) :
        /\ calls[k].arg # nullptr
        /\ calls[k].arg = calls[k].owned

C10_Witness ==
    /\ Len(calls) >= 3
    /\ \E i \in Instances : life[i] = "dead" /\ Len(CallsOf(i)) >= 3

\* C11: operator=(h) is destroy() followed by the adoption of h: for every
\* state and every h (null, a fresh value or the value owned) the call
\* leaves the DeleteObject calls and the deleted objects destroy() leaves,
\* and owns h.
C11_AssignIsDestroyThenAdopt ==
    [][\A i \in Instances :
          (Called(i) /\ lastOp'[i] = "operator=") =>
             /\ \E ok \in BOOLEAN :
                   /\ calls' = destroy(Mem(i), i, ok).calls
                   /\ freed' = destroy(Mem(i), i, ok).freed
             /\ _hGDIObj'[i] = adopted'[i]]_vars

\* operator= was given the handle the wrapper owned: the handle was
\* released and is owned again.
C11_Witness ==
    \E i \in Instances :
        /\ lastOp[i] = "operator=" /\ made[i] = 1
        /\ _hGDIObj[i] # nullptr
        /\ CallsOf(i)[Len(CallsOf(i))].arg = _hGDIObj[i]

\* C12: a failing DeleteObject is not observable: destroy() clears
\* _hGDIObj to null and returns nothing whether the call succeeded or
\* failed, makes one call at most, and leaves no call pending on that
\* handle.
C12_FailureNotObservable ==
    \A i \in Instances : life[i] = "alive" =>
        /\ LET s == destroy(Mem(i), i, TRUE)
               f == destroy(Mem(i), i, FALSE)
           IN  /\ f.h = nullptr /\ s.h = nullptr
               /\ f.ret = void /\ s.ret = void
               /\ Len(f.calls) <= Len(calls) + 1
               /\ f.freed = freed
        /\ lastOp[i] = "destroy" =>
              /\ _hGDIObj[i] = nullptr
              /\ ret[i] = void
              /\ made[i] <= 1
              /\ Pending(i) = 0

\* destroy() has made a DeleteObject call that failed on an object that
\* still exists.
C12_Witness ==
    \E i \in Instances :
        /\ lastOp[i] = "destroy" /\ made[i] = 1
        /\ ~CallsOf(i)[Len(CallsOf(i))].ret
        /\ CallsOf(i)[Len(CallsOf(i))].arg \notin freed
        /\ _hGDIObj[i] = nullptr

Constructors == {"GDIObject(h)", "GDIObject()"}

\* C13: the constructor adopts its argument with no validation and no side
\* effect: right after construction the wrapper owns exactly the value
\* passed, null or not, live or not, and has made no DeleteObject call.
C13_ConstructorAdopts ==
    [][\A i \in Instances :
          (Called(i) /\ lastOp'[i] \in Constructors) =>
             /\ _hGDIObj'[i] = adopted'[i]
             /\ lastOp'[i] = "GDIObject()" => _hGDIObj'[i] = nullptr
             /\ calls' = calls /\ freed' = freed
             /\ made'[i] = 0]_vars

\* A wrapper was constructed from a handle whose object is already deleted.
C13_Witness ==
    \E i \in Instances :
        /\ lastOp[i] = "GDIObject(h)"
        /\ _hGDIObj[i] # nullptr /\ _hGDIObj[i] \in freed

\* C15: operator=(nullptr) behaves as destroy(): it makes one DeleteObject
\* call with the handle owned before when that was non-null and none
\* otherwise, leaves the wrapper owning null, and a destruction that follows
\* makes no further call.
C15_AssignNullIsDestroy ==
    [][\A i \in Instances :
          /\ (Called(i) /\ lastOp'[i] = "operator=" /\ adopted'[i] = nullptr) =>
                /\ made'[i] = IF _hGDIObj[i] # nullptr THEN 1 ELSE 0
                /\ made'[i] = 1 =>
                      CallsOf(i)'[Len(CallsOf(i)')].arg = _hGDIObj[i]
                /\ \E ok \in BOOLEAN :
                      /\ calls' = destroy(Mem(i), i, ok).calls
                      /\ freed' = destroy(Mem(i), i, ok).freed
                      /\ _hGDIObj'[i] = destroy(Mem(i), i, ok).h
                /\ _hGDIObj'[i] = nullptr
                /\ Pending(i)' = 0
          /\ (Called(i) /\ lastOp'[i] = "~GDIObject"
                        /\ lastOp[i] = "operator=" /\ adopted[i] = nullptr) =>
                made'[i] = 0]_vars

\* A wrapper that owned a handle was assigned null and then destructed.
C15_Witness ==
    \E i \in Instances :
        /\ prevOp[i] = "operator=" /\ lastOp[i] = "~GDIObject"
        /\ adopted[i] = nullptr
        /\ Len(CallsOf(i)) = 1 /\ made[i] = 0

\* C16: every DeleteObject call a wrapper makes carries the value the
\* wrapper owns at that moment, which is the value it last adopted, and
\* destroy() leaves null owned right after the call; hence no adoption of a
\* handle sees two calls: a later call with the same value comes after a
\* constructor or operator= adopted it again.
C16_OneCallPerAdoption ==
    [][\A i \in Instances :
          (Called(i) /\ made'[i] > 0) =>
             LET mine == CallsOf(i)'
                 c == mine[Len(mine)]
             IN  /\ made'[i] = 1
                 /\ c.arg = _hGDIObj[i] /\ c.owned = _hGDIObj[i]
                 /\ c.arg = adopted[i]
                 /\ c.epoch = epoch[i]
                 /\ \A k \in 1..(Len(mine) - 1) : mine[k].epoch # c.epoch
                 /\ \A ok \in BOOLEAN : destroy(Mem(i), i, ok).h = nullptr
                 /\ lastOp'[i] # "operator=" => _hGDIObj'[i] = nullptr
                 /\ lastOp'[i] = "operator=" => epoch'[i] = epoch[i] + 1]_vars

\* A wrapper has called DeleteObject twice with one value, adopted twice.
C16_Witness ==
    \E i \in Instances :
        \E j, k \in 1..Len(calls) :
            /\ j < k
            /\ calls[j].obj = i /\ calls[k].obj = i
            /\ calls[j].arg = calls[k].arg
            /\ calls[j].epoch < calls[k].epoch

----------------------------------------------------------------------------
(* Threads.  NumThreads threads call destroy(), operator=(h) and the       *)
(* destructor on one instance, Shared.  The class has no lock: a call is   *)
(* the sequence of its statements, if(_hGDIObj) / DeleteObject(_hGDIObj) / *)
(* _hGDIObj=nullptr / _hGDIObj=h, and the statements of two calls          *)
(* interleave unless the caller serialises the calls (serial).             *)

Shared == 1

\* The sequential history variables, which the threads leave alone.
seqVars == <<ret, lastOp, prevOp, nCalls, made, adopted, released,
             passedTo, stalePassed>>

\* What a read of _hGDIObj can return: the member, or anything once the
\* lifetime of the instance has ended.
ReadH == IF life[Shared] = "dead" THEN HGDIOBJ ELSE {_hGDIObj[Shared]}

\* The statement that follows destroy() in the function thread t is in.
AfterDestroy(t) == IF top[t] = "operator=" THEN "store" ELSE "return"

InitThreads ==
    \E h \in HGDIOBJ :
        /\ _hGDIObj = [i \in Instances |-> IF i = Shared THEN h ELSE nullptr]
        /\ life = [i \in Instances |-> IF i = Shared THEN "alive" ELSE "none"]
        /\ calls = <<>>
        /\ freed = {}
        /\ ret = [i \in Instances |-> void]
        /\ lastOp = [i \in Instances |->
                        IF i = Shared THEN "GDIObject(h)" ELSE "none"]
        /\ prevOp = [i \in Instances |-> "none"]
        /\ nCalls = [i \in Instances |-> IF i = Shared THEN 1 ELSE 0]
        /\ made = [i \in Instances |-> 0]
        /\ adopted = [i \in Instances |-> IF i = Shared THEN h ELSE nullptr]
        /\ released = [i \in Instances |-> FALSE]
        /\ passedTo = [g \in 1..NumHandles |-> IF g = h THEN {Shared} ELSE {}]
        /\ stalePassed = FALSE
        /\ epoch = [i \in Instances |-> IF i = Shared THEN 1 ELSE 0]
        /\ pc = [t \in Threads |-> "idle"]
        /\ top = [t \in Threads |-> "none"]
        /\ targ = [t \in Threads |-> nullptr]
        /\ treg = [t \in Threads |-> nullptr]
        /\ serial \in BOOLEAN
        /\ mutex = 0
        /\ started = 0

\* Thread t begins a call of op on the shared instance; a serialising
\* caller takes its lock first.  The destructor is begun once.
T_Call(t, op, h) ==
    /\ pc[t] = "idle"
    /\ life[Shared] = "alive"
    /\ started < MaxThreadCalls
    /\ serial => mutex = 0
    /\ \A u \in Threads : pc[u] # "idle" => top[u] # "~GDIObject"
    /\ op = "operator=" \/ h = nullptr
    /\ pc' = [pc EXCEPT ![t] = "test"]
    /\ top' = [top EXCEPT ![t] = op]
    /\ targ' = [targ EXCEPT ![t] = h]
    /\ mutex' = IF serial THEN t ELSE mutex
    /\ started' = started + 1
    /\ UNCHANGED <<_hGDIObj, life, calls, freed, epoch, treg, serial>>
    /\ UNCHANGED seqVars

\* destroy(): if(_hGDIObj)
T_Test(t) ==
    /\ pc[t] = "test"
    /\ \E v \in ReadH :
          /\ treg' = [treg EXCEPT ![t] = v]
          /\ pc' = [pc EXCEPT ![t] = IF static_cast_bool(v) THEN "delete"
                                     ELSE AfterDestroy(t)]
    /\ UNCHANGED <<_hGDIObj, life, calls, freed, epoch, top, targ, serial,
                   mutex, started>>
    /\ UNCHANGED seqVars

\* destroy(): DeleteObject(_hGDIObj).  The argument is the value the test
\* read or a second read of the member, as the build has it.
T_Delete(t, ok) ==
    /\ pc[t] = "delete"
    /\ \E arg \in {treg[t]} \cup ReadH :
          LET m == DeleteObject(Mem(Shared), Shared, arg, ok)
          IN  /\ calls' = m.calls
              /\ freed' = m.freed
    /\ pc' = [pc EXCEPT ![t] = "clear"]
    /\ UNCHANGED <<_hGDIObj, life, epoch, top, targ, treg, serial, mutex,
                   started>>
    /\ UNCHANGED seqVars

\* T_Clear for a destroy() that forgets _hGDIObj=nullptr.
T_Clear_Skip(t) ==
    /\ pc[t] = "clear"
    /\ pc' = [pc EXCEPT ![t] = AfterDestroy(t)]
    /\ UNCHANGED <<_hGDIObj, life, calls, freed, epoch, top, targ, treg,
                   serial, mutex, started>>
    /\ UNCHANGED seqVars

\* destroy(): _hGDIObj=nullptr
T_Clear(t) ==
    /\ pc[t] = "clear"
    /\ _hGDIObj' = [_hGDIObj EXCEPT ![Shared] = nullptr]
    /\ pc' = [pc EXCEPT ![t] = AfterDestroy(t)]
    /\ UNCHANGED <<life, calls, freed, epoch, top, targ, treg, serial, mutex,
                   started>>
    /\ UNCHANGED seqVars

\* operator=: _hGDIObj=h
T_Store(t) ==
    /\ pc[t] = "store"
    /\ _hGDIObj' = [_hGDIObj EXCEPT ![Shared] = targ[t]]
    /\ epoch' = [epoch EXCEPT ![Shared] = @ + 1]
    /\ pc' = [pc EXCEPT ![t] = "return"]
    /\ UNCHANGED <<life, calls, freed, top, targ, treg, serial, mutex,
                   started>>
    /\ UNCHANGED seqVars

\* The call of thread t returns; the destructor ends the lifetime of the
\* instance, and a serialising caller gives its lock back.
T_Return(t) ==
    /\ pc[t] = "return"
    /\ pc' = [pc EXCEPT ![t] = "idle"]
    /\ life' = IF top[t] = "~GDIObject"
               THEN [life EXCEPT ![Shared] = "dead"]
               ELSE life
    /\ mutex' = IF serial THEN 0 ELSE mutex
    /\ UNCHANGED <<_hGDIObj, calls, freed, epoch, top, targ, treg, serial,
                   started>>
    /\ UNCHANGED seqVars

ThreadOps == {"destroy", "operator=", "~GDIObject"}

NextThreads ==
    \/ \E t \in Threads, op \in ThreadOps, h \in HGDIOBJ : T_Call(t, op, h)
    \/ \E t \in Threads : T_Test(t)
    \/ \E t \in Threads, ok \in BOOLEAN : T_Delete(t, ok)
    \/ \E t \in Threads : T_Clear(t)
    \/ \E t \in Threads : T_Store(t)
    \/ \E t \in Threads : T_Return(t)

SpecThreads == InitThreads /\ [][NextThreads]_vars

\* DeleteObject was called twice with one handle within one adoption of it.
DoubleDelete ==
    \E j, k \in 1..Len(calls) :
        /\ j < k
        /\ calls[j].obj = Shared /\ calls[k].obj = Shared
        /\ calls[j].arg = calls[k].arg
        /\ calls[j].epoch = calls[k].epoch

====
